---------------------------- MODULE Spec2Model ----------------------------
(***************************************************************************)
(* Model of sdk-rust/src/error.rs: the POPSignerError enum, its Display    *)
(* implementation (derived by thiserror from the #[error] attributes), the *)
(* From<reqwest::Error> conversion (derived from #[from]) and the three    *)
(* classification queries is_retryable, is_auth_error and status_code.     *)
(*                                                                         *)
(* One error value is followed from its construction through any sequence  *)
(* of queries on it.  The result of every query call is recorded, so that  *)
(* the properties speak about what the calls returned.                     *)
(***************************************************************************)
EXTENDS Integers, Sequences, FiniteSets, TLC

VARIABLES
    err,      \* the POPSignerError value, NoError before it is constructed
    failure,  \* the reqwest::Error handed to From::from, NoFailure if none
    first,    \* per query: <<>> before its first call, <<r>> its first result
    last      \* the latest query call: its name, result and whether repeated

vars == <<err, failure, first, last>>

----------------------------------------------------------------------------
(* Input domains *)

\* status_code is a u16.
U16Max == 65535

\* usize fields failed / total are drawn from 0 .. MaxBatch.
MaxBatch == 5

U16 == 0 .. U16Max

\* Status codes around every boundary the code and its tests mention.
StatusCodes ==
    {0, 99, 100, 200, 400, 401, 402, 403, 404, 429, 499, 500, 501, 503,
     599, 600, U16Max}

Codes == {"key_not_found", "internal"}

Messages == {"Key does not exist", "Internal server error"}

\* Payload of the single-String variants.
Details == {"bad base64", "", "id: 42"}

\* reqwest::Error is a foreign type; a value is known here by its kind and
\* by the text its own Display produces.
Causes ==
    { [kind |-> "connect", text |-> "connection refused"],
      [kind |-> "timeout", text |-> "operation timed out"],
      [kind |-> "tls",     text |-> "HTTP error: bad certificate"] }

BatchCounts == 0 .. MaxBatch

----------------------------------------------------------------------------
(* The enum: one constructor per variant *)

NoError == [variant |-> "NoError"]

NoFailure == [kind |-> "none", text |-> ""]

Api(code, message, status_code) ==
    [variant |-> "Api", code |-> code, message |-> message,
     status_code |-> status_code]

Http(cause) == [variant |-> "Http", cause |-> cause]

Decode(detail) == [variant |-> "Decode", detail |-> detail]

Unauthorized == [variant |-> "Unauthorized"]

RateLimited == [variant |-> "RateLimited"]

QuotaExceeded(detail) == [variant |-> "QuotaExceeded", detail |-> detail]

KeyNotFound(id) == [variant |-> "KeyNotFound", detail |-> id]

NamespaceNotFound(id) == [variant |-> "NamespaceNotFound", detail |-> id]

OrgNotFound(id) == [variant |-> "OrgNotFound", detail |-> id]

InvalidRequest(detail) == [variant |-> "InvalidRequest", detail |-> detail]

SigningError(detail) == [variant |-> "SigningError", detail |-> detail]

BatchPartialFailure(failed, total) ==
    [variant |-> "BatchPartialFailure", failed |-> failed, total |-> total]

\* From with the cause flattened into a less specific variant.
FromDowngraded(cause) == Decode(cause.text)

\* impl From<reqwest::Error> for POPSignerError, generated by #[from].
From(cause) == Http(cause)

\* Option<u16>
Some(v) == <<"Some", v>>

None == <<"None">>

----------------------------------------------------------------------------
(* Display *)

Digit == <<"0", "1", "2", "3", "4", "5", "6", "7", "8", "9">>

\* Display of an unsigned integer: decimal, no sign, no padding.
RECURSIVE Decimal(_)
Decimal(n) ==
    IF n < 10 THEN Digit[n + 1]
    ELSE Decimal(n \div 10) \o Digit[(n % 10) + 1]

\* Display of reqwest::Error.
CauseDisplay(cause) == cause.text

\* Display with the Api format's {code} and {message} exchanged.
DisplaySwapped(e) ==
    CASE e.variant = "Api" ->
           "API error (" \o Decimal(e.status_code) \o "): [" \o e.message
               \o "] " \o e.code
      [] e.variant = "Http" -> "HTTP error: " \o CauseDisplay(e.cause)
      [] e.variant \in {"Unauthorized", "RateLimited"} ->
           IF e.variant = "Unauthorized" THEN "Unauthorized: invalid API key"
           ELSE "Rate limit exceeded"
      [] e.variant = "Decode" -> "Decode error: " \o e.detail
      [] e.variant = "QuotaExceeded" -> "Quota exceeded: " \o e.detail
      [] e.variant = "KeyNotFound" -> "Key not found: " \o e.detail
      [] e.variant = "NamespaceNotFound" ->
           "Namespace not found: " \o e.detail
      [] e.variant = "OrgNotFound" -> "Organization not found: " \o e.detail
      [] e.variant = "InvalidRequest" -> "Invalid request: " \o e.detail
      [] e.variant = "SigningError" -> "Signing error: " \o e.detail
      [] e.variant = "BatchPartialFailure" ->
           "Batch operation had " \o Decimal(e.failed)
               \o " failures out of " \o Decimal(e.total) \o " requests"

\* impl Display for POPSignerError, generated from the #[error] attributes.
Display(e) ==
    CASE e.variant = "Api" ->
           "API error (" \o Decimal(e.status_code) \o "): [" \o e.code
               \o "] " \o e.message
      [] e.variant = "Http" -> "HTTP error: " \o CauseDisplay(e.cause)
      [] e.variant = "Decode" -> "Decode error: " \o e.detail
      [] e.variant = "Unauthorized" -> "Unauthorized: invalid API key"
      [] e.variant = "RateLimited" -> "Rate limit exceeded"
      [] e.variant = "QuotaExceeded" -> "Quota exceeded: " \o e.detail
      [] e.variant = "KeyNotFound" -> "Key not found: " \o e.detail
      [] e.variant = "NamespaceNotFound" ->
           "Namespace not found: " \o e.detail
      [] e.variant = "OrgNotFound" -> "Organization not found: " \o e.detail
      [] e.variant = "InvalidRequest" -> "Invalid request: " \o e.detail
      [] e.variant = "SigningError" -> "Signing error: " \o e.detail
      [] e.variant = "BatchPartialFailure" ->
           "Batch operation had " \o Decimal(e.failed)
               \o " failures out of " \o Decimal(e.total) \o " requests"

----------------------------------------------------------------------------
(* Classification queries *)

\* is_retryable with the 5xx boundary off by one.
is_retryable_above_500(e) ==
    CASE e.variant = "RateLimited" -> TRUE
      [] e.variant = "Http" -> TRUE
      [] e.variant = "Api" -> e.status_code > 500
      [] OTHER -> FALSE

\* is_retryable taking every error status (4xx and 5xx) as transient.
is_retryable_from_400(e) ==
    CASE e.variant = "RateLimited" -> TRUE
      [] e.variant = "Http" -> TRUE
      [] e.variant = "Api" -> e.status_code >= 400
      [] OTHER -> FALSE

is_retryable(e) ==
    CASE e.variant = "RateLimited" -> TRUE
      [] e.variant = "Http" -> TRUE
      [] e.variant = "Api" -> e.status_code >= 500
      [] OTHER -> FALSE

\* is_auth_error without the 403 pattern.
is_auth_error_401_only(e) ==
    \/ e.variant = "Unauthorized"
    \/ (e.variant = "Api" /\ e.status_code = 401)

is_auth_error(e) ==
    \/ e.variant = "Unauthorized"
    \/ (e.variant = "Api" /\ e.status_code = 401)
    \/ (e.variant = "Api" /\ e.status_code = 403)

\* status_code with the RateLimited arm giving the wrong constant.
status_code_rate_limited_503(e) ==
    CASE e.variant = "Api" -> Some(e.status_code)
      [] e.variant = "Unauthorized" -> Some(401)
      [] e.variant = "RateLimited" -> Some(503)
      [] OTHER -> None

\* status_code without the Unauthorized arm.
status_code_no_unauthorized(e) ==
    CASE e.variant = "Api" -> Some(e.status_code)
      [] e.variant = "RateLimited" -> Some(429)
      [] OTHER -> None

status_code(e) ==
    CASE e.variant = "Api" -> Some(e.status_code)
      [] e.variant = "Unauthorized" -> Some(401)
      [] e.variant = "RateLimited" -> Some(429)
      [] OTHER -> None

----------------------------------------------------------------------------
(* State machine *)

NotCalled ==
    [is_retryable |-> <<>>, is_auth_error |-> <<>>, status_code |-> <<>>,
     to_string |-> <<>>]

NoCall == [query |-> "none", result |-> <<>>, repeat |-> FALSE]

Init ==
    /\ err = NoError
    /\ failure = NoFailure
    /\ first = NotCalled
    /\ last = NoCall

\* A variant is built in place: the enum has no constructor function and
\* no validation, the fields are stored as given.
Construct(e) ==
    /\ err = NoError
    /\ err' = e
    /\ UNCHANGED <<failure, first, last>>

NewApi ==
    \E code \in Codes, message \in Messages, sc \in StatusCodes :
        Construct(Api(code, message, sc))

\* `?` on a reqwest result: From::from(cause).
FromReqwest ==
    \E cause \in Causes :
        /\ err = NoError
        /\ err' = From(cause)
        /\ failure' = cause
        /\ UNCHANGED <<first, last>>

NewDecode == \E d \in Details : Construct(Decode(d))

NewUnauthorized == Construct(Unauthorized)

NewRateLimited == Construct(RateLimited)

NewQuotaExceeded == \E d \in Details : Construct(QuotaExceeded(d))

NewKeyNotFound == \E d \in Details : Construct(KeyNotFound(d))

NewNamespaceNotFound == \E d \in Details : Construct(NamespaceNotFound(d))

NewOrgNotFound == \E d \in Details : Construct(OrgNotFound(d))

NewInvalidRequest == \E d \in Details : Construct(InvalidRequest(d))

NewSigningError == \E d \in Details : Construct(SigningError(d))

NewBatchPartialFailure ==
    \E failed \in BatchCounts, total \in BatchCounts :
        Construct(BatchPartialFailure(failed, total))

\* A query takes &self: it returns a value and leaves the error alone.
Record(query, result) ==
    /\ first' = IF first[query] = <<>>
                THEN [first EXCEPT ![query] = <<result>>]
                ELSE first
    /\ last' = [query |-> query, result |-> <<result>>,
                repeat |-> first[query] # <<>>]

IsRetryableCall ==
    /\ err # NoError
    /\ Record("is_retryable", is_retryable(err))
    /\ UNCHANGED <<err, failure>>

IsAuthErrorCall ==
    /\ err # NoError
    /\ Record("is_auth_error", is_auth_error(err))
    /\ UNCHANGED <<err, failure>>

\* status_code taking self by mutable reference and moving the code out.
StatusCodeCallTakes ==
    /\ err # NoError
    /\ Record("status_code", status_code(err))
    /\ err' = IF err.variant = "Api"
              THEN [err EXCEPT !.status_code = 0]
              ELSE err
    /\ UNCHANGED failure

StatusCodeCall ==
    /\ err # NoError
    /\ Record("status_code", status_code(err))
    /\ UNCHANGED <<err, failure>>

ToStringCall ==
    /\ err # NoError
    /\ Record("to_string", Display(err))
    /\ UNCHANGED <<err, failure>>

Next ==
    \/ NewApi
    \/ FromReqwest
    \/ NewDecode
    \/ NewUnauthorized
    \/ NewRateLimited
    \/ NewQuotaExceeded
    \/ NewKeyNotFound
    \/ NewNamespaceNotFound
    \/ NewOrgNotFound
    \/ NewInvalidRequest
    \/ NewSigningError
    \/ NewBatchPartialFailure
    \/ IsRetryableCall
    \/ IsAuthErrorCall
    \/ StatusCodeCall
    \/ ToStringCall

Spec == Init /\ [][Next]_vars

----------------------------------------------------------------------------
(* The same queries on every value of the type: each variant with each of  *)
(* its payloads, and Api with every u16 status code.                       *)

Payloads ==
    {Decode(d) : d \in Details} \cup {QuotaExceeded(d) : d \in Details}
        \cup {KeyNotFound(d) : d \in Details}
        \cup {NamespaceNotFound(d) : d \in Details}
        \cup {OrgNotFound(d) : d \in Details}
        \cup {InvalidRequest(d) : d \in Details}
        \cup {SigningError(d) : d \in Details}

Values ==
    {Api("internal", "Internal server error", sc) : sc \in U16}
        \cup {Api(c, m, sc) : c \in Codes, m \in Messages, sc \in StatusCodes}
        \cup {From(c) : c \in Causes}
        \cup {Unauthorized, RateLimited}
        \cup Payloads
        \cup {BatchPartialFailure(f, t) : f \in BatchCounts, t \in BatchCounts}

InitSweep ==
    /\ err \in Values
    /\ failure = IF err.variant = "Http" THEN err.cause ELSE NoFailure
    /\ first = NotCalled
    /\ last = NoCall

NextSweep ==
    \/ IsRetryableCall
    \/ IsAuthErrorCall
    \/ StatusCodeCall

SpecSweep == InitSweep /\ [][NextSweep]_vars

----------------------------------------------------------------------------
(* Properties *)

NeverRetryable ==
    {"Decode", "Unauthorized", "QuotaExceeded", "KeyNotFound",
     "NamespaceNotFound", "OrgNotFound", "InvalidRequest", "SigningError",
     "BatchPartialFailure"}

NoStatus ==
    {"Http", "Decode", "QuotaExceeded", "KeyNotFound", "NamespaceNotFound",
     "OrgNotFound", "InvalidRequest", "SigningError", "BatchPartialFailure"}

\* t occurs in s as a contiguous substring.
Contains(s, t) ==
    \E i \in 1 .. (Len(s) - Len(t) + 1) : SubSeq(s, i, i + Len(t) - 1) = t

\* C1: whenever is_retryable() has just returned, its result is true
\* exactly for RateLimited, for Http (any cause) and for Api with
\* status_code >= 500; it is false for Api below 500 and for each of the
\* nine other variants, whatever their fields.
C1_RetryableTable ==
    last.query = "is_retryable" =>
        LET r == last.result[1]
            v == err.variant
        IN  /\ v \in {"RateLimited", "Http"} => r = TRUE
            /\ v = "Api" /\ err.status_code >= 500 => r = TRUE
            /\ v = "Api" /\ err.status_code < 500 => r = FALSE
            /\ v \in NeverRetryable => r = FALSE
            /\ v \in {"RateLimited", "Http", "Api"} \cup NeverRetryable

\* is_retryable() has returned true on Api with status_code 500.
C1_Witness ==
    /\ last.query = "is_retryable"
    /\ err.variant = "Api"
    /\ err.status_code = 500
    /\ last.result = <<TRUE>>

\* C2: whenever is_auth_error() has just returned, its result is true
\* exactly for Unauthorized and for Api with status_code 401 or 403, and
\* false for Api with any other status_code and for every other variant.
C2_AuthTable ==
    last.query = "is_auth_error" =>
        LET r == last.result[1]
            v == err.variant
        IN  r <=> (v = "Unauthorized"
                     \/ (v = "Api" /\ err.status_code \in {401, 403}))

\* is_auth_error() has returned true on Api with status_code 403.
C2_Witness ==
    /\ last.query = "is_auth_error"
    /\ err.variant = "Api"
    /\ err.status_code = 403
    /\ last.result = <<TRUE>>

\* C3: whenever status_code() has just returned, its result is Some of the
\* stored status_code for Api, Some(401) for Unauthorized, Some(429) for
\* RateLimited and None for each of the nine other variants.
C3_StatusCodeTable ==
    last.query = "status_code" =>
        LET r == last.result[1]
            v == err.variant
        IN  /\ v = "Api" => r = <<"Some", err.status_code>>
            /\ v = "Unauthorized" => r = <<"Some", 401>>
            /\ v = "RateLimited" => r = <<"Some", 429>>
            /\ v \in NoStatus => r = <<"None">>
            /\ v \in {"Api", "Unauthorized", "RateLimited"} \cup NoStatus

\* status_code() has returned Some(429) on RateLimited.
C3_Witness ==
    /\ last.query = "status_code"
    /\ err.variant = "RateLimited"
    /\ last.result = << <<"Some", 429>> >>

\* C4: every BatchPartialFailure value satisfies 0 < failed <= total, a
\* construction with failed = 0 or failed > total being rejected.
C4_BatchInvariant ==
    err.variant = "BatchPartialFailure" =>
        (0 < err.failed /\ err.failed <= err.total)

\* C5: every Api value carries a status_code in 100 .. 599.
C5_ApiStatusRange ==
    err.variant = "Api" => (100 <= err.status_code /\ err.status_code <= 599)

\* The text the #[error] attribute of the value's variant describes, numbers
\* in the decimal notation of ToString.
Formatted ==
    LET v == err.variant
    IN  IF v = "Api"
        THEN "API error (" \o ToString(err.status_code) \o "): ["
                 \o err.code \o "] " \o err.message
        ELSE IF v = "Http" THEN "HTTP error: " \o err.cause.text
        ELSE IF v = "Decode" THEN "Decode error: " \o err.detail
        ELSE IF v = "Unauthorized" THEN "Unauthorized: invalid API key"
        ELSE IF v = "RateLimited" THEN "Rate limit exceeded"
        ELSE IF v = "QuotaExceeded" THEN "Quota exceeded: " \o err.detail
        ELSE IF v = "KeyNotFound" THEN "Key not found: " \o err.detail
        ELSE IF v = "NamespaceNotFound"
        THEN "Namespace not found: " \o err.detail
        ELSE IF v = "OrgNotFound"
        THEN "Organization not found: " \o err.detail
        ELSE IF v = "InvalidRequest" THEN "Invalid request: " \o err.detail
        ELSE IF v = "SigningError" THEN "Signing error: " \o err.detail
        ELSE "Batch operation had " \o ToString(err.failed)
                 \o " failures out of " \o ToString(err.total)
                 \o " requests"

\* C6: whenever to_string() has just returned, its result is the variant's
\* literal format with the fields substituted; in particular Api with code
\* key_not_found, message "Key does not exist" and status_code 404 renders
\* as "API error (404): [key_not_found] Key does not exist".
C6_RenderFormats ==
    last.query = "to_string" =>
        /\ last.result[1] = Formatted
        /\ err = Api("key_not_found", "Key does not exist", 404) =>
               last.result[1]
                   = "API error (404): [key_not_found] Key does not exist"

\* to_string() has returned on the Api value of the display test.
C6_Witness ==
    /\ last.query = "to_string"
    /\ err.variant = "Api"
    /\ err.status_code = 404
    /\ err.code = "key_not_found"
    /\ last.result
           = <<"API error (404): [key_not_found] Key does not exist">>

\* C7: once a transport failure has been converted, the error is the Http
\* variant holding that same cause, and whenever to_string() has just
\* returned on it the result contains the cause's own text.
C7_TransportWrapped ==
    failure # NoFailure =>
        /\ err.variant = "Http"
        /\ err.cause = failure
        /\ last.query = "to_string" =>
               /\ Len(CauseDisplay(failure)) > 0
               /\ Contains(last.result[1], CauseDisplay(failure))

\* A timeout has been converted and the resulting error rendered.
C7_Witness ==
    /\ failure.kind = "timeout"
    /\ err.variant = "Http"
    /\ last.query = "to_string"
    /\ last.result = <<"HTTP error: operation timed out">>

\* C8: once constructed the value never changes, and every query call
\* returns what the first call of that query returned.
C8_QueriesPure ==
    /\ [][err # NoError => err' = err]_vars
    /\ [](last.query # "none" => last.result = first[last.query])

\* All four queries have been called and the latest call repeats one.
C8_Witness ==
    /\ err.variant = "Api"
    /\ last.repeat
    /\ last.query = "status_code"
    /\ \A q \in DOMAIN first : first[q] # <<>>

\* C9: no value has is_retryable() and is_auth_error() both return true.
C9_RetryableAuthDisjoint ==
    (first.is_retryable # <<>> /\ first.is_auth_error # <<>>) =>
        ~(first.is_retryable[1] /\ first.is_auth_error[1])

\* Both predicates have been called on Api 401, auth true and retry false.
C9_Witness ==
    /\ err.variant = "Api"
    /\ err.status_code = 401
    /\ first.is_retryable = <<FALSE>>
    /\ first.is_auth_error = <<TRUE>>

\* C10: is_auth_error() returns true if and only if status_code() returns
\* Some(401) or Some(403).
C10_AuthAgreesWithStatus ==
    (first.is_auth_error # <<>> /\ first.status_code # <<>>) =>
        (first.is_auth_error[1]
            <=> first.status_code[1] \in {<<"Some", 401>>, <<"Some", 403>>})

\* Both queries have been called on Unauthorized.
C10_Witness ==
    /\ err.variant = "Unauthorized"
    /\ first.is_auth_error = <<TRUE>>
    /\ first.status_code = << <<"Some", 401>> >>

=============================================================================
